---- MODULE Spec2Model ----
(***************************************************************************)
(* A model of todo_cli: a command-line task tracker that keeps its tasks   *)
(* in tasks.json.  Every invocation of the program is one process: main    *)
(* builds a TaskManager (which loads the whole file), runs exactly one     *)
(* command on it (add, list, done, delete) and exits.                      *)
(*                                                                         *)
(* Text is modelled as a sequence of one-character strings wherever the    *)
(* program looks inside it (the due-date argument); descriptions are       *)
(* opaque strings.  An Option<T> is the empty sequence (None) or a         *)
(* one-element sequence (Some).                                            *)
(***************************************************************************)
EXTENDS Integers, Sequences, FiniteSets, TLC

\* ---------------------------------------------------------------- bounds

\* Add is not offered once next_id has reached MaxId (usize is unbounded here).
MaxId == 2

\* The process slots: the invocations that can be alive at the same time.
Procs == {1, 2}

\* Invocations run one after the other use one slot.
SeqProcs == {1}

\* The descriptions a user types.
Descriptions == {"buy milk", "call mom"}

\* The --due arguments a user types (None, or Some of these).
DueStrings ==
    { <<"2","0","2","4","-","0","3","-","1","5"," ","1","4",":","3","0">>,
      <<"2","0","2","4","-","0","3","-","1","5">>,
      <<"2","0","2","4","-","1","3","-","0","1">>,
      <<"n","o","t","-","a","-","d","a","t","e">> }

DueArgs == {<<>>} \cup { <<s>> : s \in DueStrings }

\* What the file system does to the one save of an invocation.
IoOutcomes == {"ok", "create_fails", "write_fails"}

\* What the file system does to the one read of an invocation.
ReadOutcomes == {"ok", "read_fails"}

\* ------------------------------------------------------- calendar (chrono)

\* 5 * 3600 + 30 * 60 seconds east of UTC, in minutes.
IstOffsetMinutes == 330

IsLeap(y) == (y % 4 = 0 /\ y % 100 # 0) \/ y % 400 = 0

DaysInMonth(y, m) ==
    IF m = 2 THEN (IF IsLeap(y) THEN 29 ELSE 28)
    ELSE IF m \in {4, 6, 9, 11} THEN 30 ELSE 31

\* Days from 1970-01-01 to the civil date y-m-d (proleptic Gregorian).
DaysFromCivil(y, m, d) ==
    LET yy  == IF m <= 2 THEN y - 1 ELSE y
        era == yy \div 400
        yoe == yy - era * 400
        mp  == IF m > 2 THEN m - 3 ELSE m + 9
        doy == (153 * mp + 2) \div 5 + d - 1
        doe == yoe * 365 + yoe \div 4 - yoe \div 100 + doy
    IN  era * 146097 + doe - 719468

\* The civil date of the day z days after 1970-01-01.
CivilFromDays(z) ==
    LET zz  == z + 719468
        era == zz \div 146097
        doe == zz - era * 146097
        yoe == (doe - doe \div 1460 + doe \div 36524 - doe \div 146096) \div 365
        doy == doe - (365 * yoe + yoe \div 4 - yoe \div 100)
        mp  == (5 * doy + 2) \div 153
        d   == doy - (153 * mp + 2) \div 5 + 1
        m   == IF mp < 10 THEN mp + 3 ELSE mp - 9
        y   == yoe + era * 400 + (IF m <= 2 THEN 1 ELSE 0)
    IN  [year |-> y, month |-> m, day |-> d]

\* A NaiveDateTime [year, month, day, hour, minute] as minutes since the epoch.
NaiveToMinutes(n) ==
    DaysFromCivil(n.year, n.month, n.day) * 1440 + n.hour * 60 + n.minute

MinutesToNaive(t) ==
    LET days == t \div 1440
        rest == t - days * 1440
        c    == CivilFromDays(days)
    IN  [year |-> c.year, month |-> c.month, day |-> c.day,
         hour |-> rest \div 60, minute |-> rest % 60]

\* Mutant: the wall clock typed is taken for UTC.
FromUtcDatetime(offset, naive) ==
    [utc |-> NaiveToMinutes(naive), offset |-> offset]

\* FixedOffset::from_local_datetime(..).single(): a DateTime<FixedOffset> holds
\* the UTC instant and the offset.
FromLocalDatetime(offset, naive) ==
    [utc |-> NaiveToMinutes(naive) - offset, offset |-> offset]

\* DateTime<FixedOffset>::naive_local(): the wall clock the value displays.
NaiveLocal(dt) == MinutesToNaive(dt.utc + dt.offset)

\* ------------------------------------------------- due-date parsing (main)

Digits == <<"0", "1", "2", "3", "4", "5", "6", "7", "8", "9">>

IsDigit(c) == \E i \in 1..10 : Digits[i] = c

DigitVal(c) == (CHOOSE i \in 1..10 : Digits[i] = c) - 1

\* Position of the first non-blank character of s at or after pos.
RECURSIVE SkipSpace(_, _)
SkipSpace(s, pos) ==
    IF pos <= Len(s) /\ s[pos] = " " THEN SkipSpace(s, pos + 1) ELSE pos

\* The digits of s from pos on, at most width of them, as a number.
RECURSIVE ScanDigits(_, _, _, _, _)
ScanDigits(s, pos, width, taken, acc) ==
    IF taken < width /\ pos <= Len(s) /\ IsDigit(s[pos])
    THEN ScanDigits(s, pos + 1, width, taken + 1, acc * 10 + DigitVal(s[pos]))
    ELSE [ok |-> taken >= 1, val |-> acc, pos |-> pos]

\* A numeric item (%Y, %m, %d, %H, %M): blanks are skipped, then one to
\* width digits are taken.
ScanNumber(s, pos, width) == ScanDigits(s, SkipSpace(s, pos), width, 0, 0)

\* A literal item ('-' or ':').
ScanLiteral(s, pos, c) ==
    [ok |-> pos <= Len(s) /\ s[pos] = c, val |-> 0, pos |-> pos + 1]

NoParse == [ok |-> FALSE,
            val |-> [year |-> 0, month |-> 0, day |-> 0, hour |-> 0, minute |-> 0]]

ValidDate(y, m, d) == m \in 1..12 /\ d >= 1 /\ d <= DaysInMonth(y, m)

\* The "%Y-%m-%d" prefix both formats share: [ok, year, month, day, pos].
ScanDate(s) ==
    LET y  == ScanNumber(s, 1, 4)
        l1 == ScanLiteral(s, y.pos, "-")
        m  == ScanNumber(s, l1.pos, 2)
        l2 == ScanLiteral(s, m.pos, "-")
        d  == ScanNumber(s, l2.pos, 2)
    IN  IF ~y.ok THEN [ok |-> FALSE, year |-> 0, month |-> 0, day |-> 0, pos |-> 0]
        ELSE IF ~l1.ok THEN [ok |-> FALSE, year |-> 0, month |-> 0, day |-> 0, pos |-> 0]
        ELSE IF ~m.ok THEN [ok |-> FALSE, year |-> 0, month |-> 0, day |-> 0, pos |-> 0]
        ELSE IF ~l2.ok THEN [ok |-> FALSE, year |-> 0, month |-> 0, day |-> 0, pos |-> 0]
        ELSE IF ~d.ok THEN [ok |-> FALSE, year |-> 0, month |-> 0, day |-> 0, pos |-> 0]
        ELSE [ok |-> TRUE, year |-> y.val, month |-> m.val, day |-> d.val, pos |-> d.pos]

\* NaiveDateTime::parse_from_str(s, "%Y-%m-%d %H:%M")
ParseNaiveDateTime(s) ==
    LET dt == ScanDate(s)
        sp == SkipSpace(s, dt.pos)
        h  == ScanNumber(s, sp, 2)
        l3 == ScanLiteral(s, h.pos, ":")
        mi == ScanNumber(s, l3.pos, 2)
    IN  IF ~dt.ok THEN NoParse
        ELSE IF ~h.ok THEN NoParse
        ELSE IF ~l3.ok THEN NoParse
        ELSE IF ~mi.ok THEN NoParse
        ELSE IF mi.pos <= Len(s) THEN NoParse
        ELSE IF ~ValidDate(dt.year, dt.month, dt.day) THEN NoParse
        ELSE IF h.val > 23 \/ mi.val > 59 THEN NoParse
        ELSE [ok |-> TRUE,
              val |-> [year |-> dt.year, month |-> dt.month, day |-> dt.day,
                       hour |-> h.val, minute |-> mi.val]]

\* Mutant: the date-only format without the range check of month and day.
ParseNaiveDateNoRange(s) ==
    LET dt == ScanDate(s)
    IN  IF ~dt.ok THEN NoParse
        ELSE IF dt.pos <= Len(s) THEN NoParse
        ELSE [ok |-> TRUE,
              val |-> [year |-> dt.year, month |-> dt.month, day |-> dt.day,
                       hour |-> 0, minute |-> 0]]

\* NaiveDate::parse_from_str(s, "%Y-%m-%d").map(|date| date.and_hms_opt(0, 0, 0))
ParseNaiveDate(s) ==
    LET dt == ScanDate(s)
    IN  IF ~dt.ok THEN NoParse
        ELSE IF dt.pos <= Len(s) THEN NoParse
        ELSE IF ~ValidDate(dt.year, dt.month, dt.day) THEN NoParse
        ELSE [ok |-> TRUE,
              val |-> [year |-> dt.year, month |-> dt.month, day |-> dt.day,
                       hour |-> 0, minute |-> 0]]

\* The date-and-time format first, the date-only format when that fails.
ParseDue(s) ==
    IF ParseNaiveDateTime(s).ok THEN ParseNaiveDateTime(s) ELSE ParseNaiveDate(s)

\* ------------------------------------------------------------ Task (task.rs)

\* Mutant: the due date given is not kept.
TaskNewDropsDue(id, description, due_date) ==
    [id |-> id, description |-> description, status |-> "Pending",
     due_date |-> <<>>]

\* Task::new: new tasks are always pending.
TaskNew(id, description, due_date) ==
    [id |-> id, description |-> description, status |-> "Pending",
     due_date |-> due_date]

\* Mutant: marking done also clears the due date.
MarkDoneDropsDue(task) == [task EXCEPT !.status = "Done", !.due_date = <<>>]

\* Task::mark_done
MarkDone(task) == [task EXCEPT !.status = "Done"]

\* Task::is_pending
IsPending(task) == task.status = "Pending"

\* ------------------------------------------------- the file (serde, std::fs)

\* Serialize for DateTime<FixedOffset>: the RFC 3339 text, which spells the
\* local wall clock and the offset.
DateToJson(dt) ==
    LET n == NaiveLocal(dt)
    IN  [year |-> n.year, month |-> n.month, day |-> n.day,
         hour |-> n.hour, minute |-> n.minute, offset |-> dt.offset]

\* Mutant: the offset of the text is dropped and its wall clock read as UTC.
DateFromJsonUtc(j) ==
    FromLocalDatetime(0,
        [year |-> j.year, month |-> j.month, day |-> j.day,
         hour |-> j.hour, minute |-> j.minute])

\* Deserialize for DateTime<FixedOffset>: the instant and the offset of the text.
DateFromJson(j) ==
    FromLocalDatetime(j.offset,
        [year |-> j.year, month |-> j.month, day |-> j.day,
         hour |-> j.hour, minute |-> j.minute])

\* #[derive(Serialize)] for Task: one JSON object per task.
TaskToJson(task) ==
    [id |-> task.id, description |-> task.description, status |-> task.status,
     due_date |-> IF task.due_date = <<>> THEN <<>>
                  ELSE <<DateToJson(task.due_date[1])>>]

\* Mutant: the status in the file is ignored and every task loads as pending.
TaskFromJsonDropsStatus(j) ==
    [id |-> j.id, description |-> j.description, status |-> "Pending",
     due_date |-> IF j.due_date = <<>> THEN <<>>
                  ELSE <<DateFromJson(j.due_date[1])>>]

\* #[derive(Deserialize)] for Task
TaskFromJson(j) ==
    [id |-> j.id, description |-> j.description, status |-> j.status,
     due_date |-> IF j.due_date = <<>> THEN <<>>
                  ELSE <<DateFromJson(j.due_date[1])>>]

\* serde_json::to_string_pretty(&Vec<Task>)
ToJson(ts) == [i \in 1..Len(ts) |-> TaskToJson(ts[i])]

\* serde_json::from_str::<Vec<Task>>
FromJson(data) == [i \in 1..Len(data) |-> TaskFromJson(data[i])]

\* The backing file: missing, holding a JSON array, or holding the unparsable
\* beginning of one (a write that stopped part-way).
NoFile == [state |-> "missing", data |-> <<>>]

JsonFile(data) == [state |-> "json", data |-> data]

PartialFile == [state |-> "partial", data |-> <<>>]

\* --------------------------------------------------- TaskManager (manager.rs)

MaxOf(S) == CHOOSE x \in S : \A y \in S : y <= x

\* Mutant: one more than the id of the first task loaded, not of the highest.
NextIdAfterLoadFirst(loaded_tasks) ==
    IF loaded_tasks = <<>> THEN 0 ELSE loaded_tasks[1].id + 1

\* Mutant: the highest id loaded, without the + 1.
NextIdAfterLoadNoInc(loaded_tasks) ==
    IF loaded_tasks = <<>> THEN 0
    ELSE MaxOf({ loaded_tasks[i].id : i \in 1..Len(loaded_tasks) })

\* load_tasks: the next id is one more than the highest id loaded, 0 if none.
NextIdAfterLoad(loaded_tasks) ==
    IF loaded_tasks = <<>> THEN 0
    ELSE MaxOf({ loaded_tasks[i].id : i \in 1..Len(loaded_tasks) }) + 1

\* Mutant: next_id is left at the 0 that TaskManager::new gave it.
LoadTasksKeepsZero(f, r) ==
    IF f.state = "missing" THEN [ok |-> TRUE, tasks |-> <<>>, next_id |-> 0]
    ELSE IF r = "read_fails" THEN [ok |-> FALSE, tasks |-> <<>>, next_id |-> 0]
    ELSE IF f.state = "json"
    THEN [ok |-> TRUE, tasks |-> FromJson(f.data), next_id |-> 0]
    ELSE [ok |-> FALSE, tasks |-> <<>>, next_id |-> 0]

\* Mutant: a file that cannot be read or parsed loads as the empty list.
LoadTasksLenient(f, r) ==
    IF f.state = "json" /\ r = "ok"
    THEN [ok |-> TRUE, tasks |-> FromJson(f.data),
          next_id |-> NextIdAfterLoad(FromJson(f.data))]
    ELSE [ok |-> TRUE, tasks |-> <<>>, next_id |-> 0]

\* load_tasks: [ok, tasks, next_id] from the file.  A missing file is the
\* empty list; a file that exists is read (r: what the file system answers)
\* and parsed, and either can fail.
LoadTasks(f, r) ==
    IF f.state = "missing" THEN [ok |-> TRUE, tasks |-> <<>>, next_id |-> 0]
    ELSE IF r = "read_fails" THEN [ok |-> FALSE, tasks |-> <<>>, next_id |-> 0]
    ELSE IF f.state = "json"
    THEN [ok |-> TRUE, tasks |-> FromJson(f.data),
          next_id |-> NextIdAfterLoad(FromJson(f.data))]
    ELSE [ok |-> FALSE, tasks |-> <<>>, next_id |-> 0]

\* The RefCell around the task list: "unused", or "writing" while a RefMut
\* returned by borrow_mut() is alive.
BorrowMut(cell) == "writing"

\* RefCell::borrow() panics while the cell is mutably borrowed.
BorrowPanics(cell) == cell = "writing"

\* Mutant: the file is opened for appending, so the list goes after what the
\* file already holds.
SaveTasksAppend(f, ts, cell, io) ==
    IF BorrowPanics(cell) THEN [res |-> "borrow_panic", file |-> f]
    ELSE IF io = "create_fails" THEN [res |-> "create_failed", file |-> f]
    ELSE IF io = "write_fails" THEN [res |-> "write_failed", file |-> PartialFile]
    ELSE [res |-> "ok", file |-> JsonFile(f.data \o ToJson(ts))]

\* save_tasks: borrow the list, serialize it, create (truncate) the file, write
\* it.  [res, file]: the result and the file afterwards.
SaveTasks(f, ts, cell, io) ==
    IF BorrowPanics(cell) THEN [res |-> "borrow_panic", file |-> f]
    ELSE IF io = "create_fails" THEN [res |-> "create_failed", file |-> f]
    ELSE IF io = "write_fails" THEN [res |-> "write_failed", file |-> PartialFile]
    ELSE [res |-> "ok", file |-> JsonFile(ToJson(ts))]

\* Vec::get_mut(index): Some(the element) or None.
GetMut(ts, index) == IF index < Len(ts) THEN <<ts[index + 1]>> ELSE <<>>

\* Vec::remove(index): the later elements move down by one; it panics (ok is
\* FALSE) when index is not below the length.
Remove(ts, index) ==
    IF index < Len(ts)
    THEN [ok |-> TRUE, removed |-> <<ts[index + 1]>>,
          rest |-> [i \in 1..(Len(ts) - 1) |->
                      IF i <= index THEN ts[i] ELSE ts[i + 1]]]
    ELSE [ok |-> FALSE, removed |-> <<>>, rest |-> ts]

\* Mutant: the check off by one.
InBoundsOffByOne(ts, index) == index <= Len(ts)

\* delete_task's check: index < tasks.len()
InBounds(ts, index) == index < Len(ts)

\* What the program prints: one record per line group.
Msg(kind, id, text) == [kind |-> kind, id |-> id, text |-> text, lines |-> <<>>]

\* list_tasks: one line per task, "[mark] id. description (Due: ... IST)".
ListLine(task) ==
    [mark |-> IF task.status = "Pending" THEN " " ELSE "x",
     id |-> task.id, description |-> task.description,
     due |-> IF task.due_date = <<>> THEN <<>>
             ELSE <<NaiveLocal(task.due_date[1])>>]

ListOutput(ts) ==
    IF ts = <<>> THEN <<Msg("list_empty", 0, "")>>
    ELSE <<[kind |-> "list", id |-> 0, text |-> "",
            lines |-> [i \in 1..Len(ts) |-> ListLine(ts[i])]]>>

\* The "Error saving tasks" warning, printed when save_tasks returns Err.
SaveWarning(res) ==
    IF res \in {"create_failed", "write_failed"}
    THEN <<Msg("save_error", 0, res)>> ELSE <<>>

\* ------------------------------------------------------------------ state

VARIABLES
    file,      \* tasks.json
    pc,        \* per process: "idle", "ready" (manager built), "ok", "err", "panic"
    tasks,     \* per process: TaskManager.tasks
    next_id,   \* per process: TaskManager.next_id
    out,       \* per process: what it has printed
    cmd,       \* per process: the command line it ran (history)
    pre,       \* per process: tasks, next_id and file when its command began (history)
    saveRes,   \* per process: how its save_tasks call ended, "none" if not called
    rd,        \* per process: what reading the file answered, "none" if not read
    lastIssued,  \* the id add_task gave out last, -1 before the first (history)
    prev,      \* the last command that changed the list in memory (history)
    addSaveFailed,  \* some add_task's save has failed so far (history)
    script     \* progress through the end-to-end scenario, -1 once left (history)

vars == <<file, pc, tasks, next_id, out, cmd, pre, saveRes, rd, lastIssued,
          prev, addSaveFailed, script>>

NoCmd == [op |-> "none", description |-> "", due |-> <<>>, index |-> 0, io |-> "ok"]

NoPrev == [op |-> "none", index |-> 0]

NoPre == [tasks |-> <<>>, next_id |-> 0, file |-> NoFile, prev |-> NoPrev]

\* The end-to-end scenario: add A, add B with a due date, list, done 0,
\* delete 0, list.
ScriptCmds ==
    << [op |-> "add", description |-> "buy milk", due |-> <<>>, index |-> 0,
        io |-> "ok"],
       [op |-> "add", description |-> "call mom",
        due |-> << <<"2","0","2","4","-","0","3","-","1","5"," ","1","4",":","3","0">> >>,
        index |-> 0, io |-> "ok"],
       [op |-> "list", description |-> "", due |-> <<>>, index |-> 0, io |-> "ok"],
       [op |-> "done", description |-> "", due |-> <<>>, index |-> 0, io |-> "ok"],
       [op |-> "delete", description |-> "", due |-> <<>>, index |-> 0, io |-> "ok"],
       [op |-> "list", description |-> "", due |-> <<>>, index |-> 0, io |-> "ok"] >>

ScriptNext(s, c) ==
    IF s >= 0 /\ s < Len(ScriptCmds) /\ c = ScriptCmds[s + 1] THEN s + 1 ELSE -1

Init ==
    /\ file \in {NoFile, JsonFile(<<>>)}
    /\ pc = [p \in Procs |-> "idle"]
    /\ tasks = [p \in Procs |-> <<>>]
    /\ next_id = [p \in Procs |-> 0]
    /\ out = [p \in Procs |-> <<>>]
    /\ cmd = [p \in Procs |-> NoCmd]
    /\ pre = [p \in Procs |-> NoPre]
    /\ saveRes = [p \in Procs |-> "none"]
    /\ rd = [p \in Procs |-> "none"]
    /\ lastIssued = -1
    /\ prev = NoPrev
    /\ addSaveFailed = FALSE
    /\ script = 0

\* ---------------------------------------------------------------- actions

\* main, up to the match: TaskManager::new builds the manager and loads the
\* file; a file that cannot be parsed makes main return the error.
Start(p) ==
    /\ pc[p] = "idle"
    /\ \E r \in ReadOutcomes :
         LET l == LoadTasks(file, r)
         IN  /\ pc' = [pc EXCEPT ![p] = IF l.ok THEN "ready" ELSE "err"]
             /\ tasks' = [tasks EXCEPT ![p] = l.tasks]
             /\ next_id' = [next_id EXCEPT ![p] = l.next_id]
             /\ out' = [out EXCEPT ![p] = IF l.ok THEN <<>>
                                          ELSE <<Msg("load_error", 0, "")>>]
             /\ rd' = [rd EXCEPT ![p] = IF file.state = "missing" THEN "none"
                                        ELSE r]
    /\ UNCHANGED <<file, cmd, pre, saveRes, lastIssued, prev, addSaveFailed,
                   script>>

\* What every command records when it begins.
Begin(p, c) ==
    /\ pc[p] = "ready"
    /\ cmd' = [cmd EXCEPT ![p] = c]
    /\ pre' = [pre EXCEPT ![p] =
                 [tasks |-> tasks[p], next_id |-> next_id[p], file |-> file,
                  prev |-> prev]]
    /\ script' = ScriptNext(script, c)
    /\ UNCHANGED rd

\* Commands::Add: parse --due, then add_task (push, count, save, report).
AddWith(p, description, due, io) ==
      LET c == [op |-> "add", description |-> description, due |-> due,
                index |-> 0, io |-> io]
          parsed == IF due = <<>> THEN NoParse ELSE ParseDue(due[1])
      IN
      /\ next_id[p] < MaxId
      /\ Begin(p, c)
      /\ IF due # <<>> /\ ~parsed.ok
         THEN /\ pc' = [pc EXCEPT ![p] = "err"]
              /\ out' = [out EXCEPT ![p] = <<Msg("invalid_date", 0, "")>>]
              /\ UNCHANGED <<file, tasks, next_id, saveRes, lastIssued, prev,
                             addSaveFailed>>
         ELSE LET due_date == IF due = <<>> THEN <<>>
                              ELSE <<FromLocalDatetime(IstOffsetMinutes, parsed.val)>>
                  new_task == TaskNew(next_id[p], description, due_date)
                  pushed   == Append(tasks[p], new_task)
                  sv       == SaveTasks(file, pushed, "unused", io)
              IN  /\ tasks' = [tasks EXCEPT ![p] = pushed]
                  /\ next_id' = [next_id EXCEPT ![p] = next_id[p] + 1]
                  /\ lastIssued' = new_task.id
                  /\ prev' = [op |-> "add", index |-> 0]
                  /\ file' = sv.file
                  /\ saveRes' = [saveRes EXCEPT ![p] = sv.res]
                  /\ addSaveFailed' = (addSaveFailed \/ sv.res # "ok")
                  /\ IF sv.res = "borrow_panic"
                     THEN /\ pc' = [pc EXCEPT ![p] = "panic"]
                          /\ out' = out
                     ELSE /\ pc' = [pc EXCEPT ![p] = "ok"]
                          /\ out' = [out EXCEPT ![p] =
                                SaveWarning(sv.res) \o <<Msg("added", 0, "")>>]

AddCommand(p) ==
    \E description \in Descriptions, due \in DueArgs, io \in IoOutcomes :
      AddWith(p, description, due, io)

\* Commands::List: list_tasks.
ListCommand(p) ==
    /\ Begin(p, [op |-> "list", description |-> "", due |-> <<>>, index |-> 0,
                 io |-> "ok"])
    /\ out' = [out EXCEPT ![p] = ListOutput(tasks[p])]
    /\ pc' = [pc EXCEPT ![p] = "ok"]
    /\ UNCHANGED <<file, tasks, next_id, saveRes, lastIssued, prev,
                   addSaveFailed>>

\* Commands::Done: mark_task_done.  The RefMut taken on entry lives to the end
\* of the function, so it is alive when save_tasks borrows the list.
DoneWith(p, index, io) ==
      LET c == [op |-> "done", description |-> "", due |-> <<>>,
                index |-> index, io |-> io]
          cell == BorrowMut("unused")
          got  == GetMut(tasks[p], index)
      IN
      /\ Begin(p, c)
      /\ UNCHANGED <<next_id, lastIssued, addSaveFailed>>
      /\ IF got # <<>>
         THEN LET task == got[1]
              IN  IF IsPending(task)
                  THEN LET marked == [tasks[p] EXCEPT ![index + 1] = MarkDone(task)]
                           sv     == SaveTasks(file, marked, cell, io)
                       IN  /\ tasks' = [tasks EXCEPT ![p] = marked]
                           /\ prev' = [op |-> "done", index |-> index]
                           /\ file' = sv.file
                           /\ saveRes' = [saveRes EXCEPT ![p] = sv.res]
                           /\ IF sv.res = "borrow_panic"
                              THEN /\ pc' = [pc EXCEPT ![p] = "panic"]
                                   /\ out' = out
                              ELSE /\ pc' = [pc EXCEPT ![p] = "ok"]
                                   /\ out' = [out EXCEPT ![p] = SaveWarning(sv.res)
                                         \o <<Msg("marked_done", task.id, "")>>]
                  ELSE /\ out' = [out EXCEPT ![p] =
                                    <<Msg("already_done", task.id, "")>>]
                       /\ pc' = [pc EXCEPT ![p] = "ok"]
                       /\ UNCHANGED <<file, tasks, saveRes, prev>>
         ELSE /\ out' = [out EXCEPT ![p] = <<Msg("invalid_index", index, "")>>]
              /\ pc' = [pc EXCEPT ![p] = "ok"]
              /\ UNCHANGED <<file, tasks, saveRes, prev>>

DoneCommand(p) ==
    \E index \in 0..MaxId, io \in IoOutcomes : DoneWith(p, index, io)

\* Commands::Delete: delete_task, with the same RefMut alive across save_tasks.
DeleteWith(p, index, io) ==
      LET c == [op |-> "delete", description |-> "", due |-> <<>>,
                index |-> index, io |-> io]
          cell == BorrowMut("unused")
          rm   == Remove(tasks[p], index)
      IN
      /\ Begin(p, c)
      /\ UNCHANGED <<next_id, lastIssued, addSaveFailed>>
      /\ IF InBounds(tasks[p], index)
         THEN IF ~rm.ok
              THEN /\ pc' = [pc EXCEPT ![p] = "panic"]
                   /\ UNCHANGED <<file, tasks, out, saveRes, prev>>
              ELSE LET removed_task == rm.removed[1]
                       sv == SaveTasks(file, rm.rest, cell, io)
                   IN  /\ tasks' = [tasks EXCEPT ![p] = rm.rest]
                       /\ prev' = [op |-> "delete", index |-> index]
                       /\ file' = sv.file
                       /\ saveRes' = [saveRes EXCEPT ![p] = sv.res]
                       /\ IF sv.res = "borrow_panic"
                          THEN /\ pc' = [pc EXCEPT ![p] = "panic"]
                               /\ out' = out
                          ELSE /\ pc' = [pc EXCEPT ![p] = "ok"]
                               /\ out' = [out EXCEPT ![p] = SaveWarning(sv.res)
                                     \o <<Msg("deleted", removed_task.id,
                                              removed_task.description)>>]
         ELSE /\ out' = [out EXCEPT ![p] = <<Msg("invalid_index", index, "")>>]
              /\ pc' = [pc EXCEPT ![p] = "ok"]
              /\ UNCHANGED <<file, tasks, saveRes, prev>>

DeleteCommand(p) ==
    \E index \in 0..MaxId, io \in IoOutcomes : DeleteWith(p, index, io)

\* main returning, or the process dying of a panic: its memory is gone.
Exit(p) ==
    /\ pc[p] \in {"ok", "err", "panic"}
    /\ pc' = [pc EXCEPT ![p] = "idle"]
    /\ tasks' = [tasks EXCEPT ![p] = <<>>]
    /\ next_id' = [next_id EXCEPT ![p] = 0]
    /\ out' = [out EXCEPT ![p] = <<>>]
    /\ cmd' = [cmd EXCEPT ![p] = NoCmd]
    /\ pre' = [pre EXCEPT ![p] = NoPre]
    /\ saveRes' = [saveRes EXCEPT ![p] = "none"]
    /\ rd' = [rd EXCEPT ![p] = "none"]
    /\ UNCHANGED <<file, lastIssued, prev, addSaveFailed, script>>

Next ==
    \/ \E p \in SeqProcs : Start(p)
    \/ \E p \in SeqProcs : AddCommand(p)
    \/ \E p \in SeqProcs : ListCommand(p)
    \/ \E p \in SeqProcs : DoneCommand(p)
    \/ \E p \in SeqProcs : DeleteCommand(p)
    \/ \E p \in SeqProcs : Exit(p)

Spec == Init /\ [][Next]_vars

\* The lists a tasks.json can hold when the program starts: what load_tasks
\* accepts, with the ids 0, 1, ... that add_task gives out, any description
\* and either status.
StoredLists ==
    UNION { { [i \in 1..n |->
                 [id |-> i - 1, description |-> f[i][1], status |-> f[i][2],
                  due_date |-> <<>>]] :
              f \in [1..n -> Descriptions \X {"Pending", "Done"}] } :
            n \in 0..MaxId }

\* The program started on such a file, or on none.
InitStored ==
    /\ \E ts \in StoredLists :
         /\ file \in {JsonFile(ToJson(ts))} \cup (IF ts = <<>> THEN {NoFile} ELSE {})
         /\ lastIssued = Len(ts) - 1
         /\ script = IF ts = <<>> THEN 0 ELSE -1
    /\ pc = [p \in Procs |-> "idle"]
    /\ tasks = [p \in Procs |-> <<>>]
    /\ next_id = [p \in Procs |-> 0]
    /\ out = [p \in Procs |-> <<>>]
    /\ cmd = [p \in Procs |-> NoCmd]
    /\ pre = [p \in Procs |-> NoPre]
    /\ saveRes = [p \in Procs |-> "none"]
    /\ rd = [p \in Procs |-> "none"]
    /\ prev = NoPrev
    /\ addSaveFailed = FALSE

SpecStored == InitStored /\ [][Next]_vars

\* Invocations that overlap: two processes, each loading, running its one
\* command and exiting, with nothing ordering their steps.  The commands are
\* those of Next with fewer arguments to choose from: add without a due date,
\* done and delete at position 0 and, since neither reaches the file system,
\* with a working one.
RaceAdd(p) ==
    \E description \in Descriptions, io \in IoOutcomes :
      AddWith(p, description, <<>>, io)

RaceDone(p) == DoneWith(p, 0, "ok")

RaceDelete(p) == DeleteWith(p, 0, "ok")

NextRace ==
    \/ \E p \in Procs : Start(p)
    \/ \E p \in Procs : RaceAdd(p)
    \/ \E p \in Procs : ListCommand(p)
    \/ \E p \in Procs : RaceDone(p)
    \/ \E p \in Procs : RaceDelete(p)
    \/ \E p \in Procs : Exit(p)

SpecRace == Init /\ [][NextRace]_vars

\* ----------------------------------------------------------------- claims

Ended(p) == pc[p] \in {"ok", "err", "panic"}

\* Process p has run command op to its end.
Ran(p, op) == Ended(p) /\ cmd[p].op = op

\* Process p has run add and add_task pushed a task.
Added(p) == Ran(p, "add") /\ Len(tasks[p]) = Len(pre[p].tasks) + 1

\* The step in which process p's add_task gives out an id.
AddStep(p) == pc[p] = "ready" /\ Added(p)'

NewId(p) == tasks[p][Len(tasks[p])].id

InRange(p) == cmd[p].index < Len(pre[p].tasks)

\* The task at the position process p's command names, as loaded.
Target(p) == pre[p].tasks[cmd[p].index + 1]

\* save_tasks was called and went as far as the file.
SaveCarriedOut(p) == saveRes[p] \in {"ok", "create_failed", "write_failed"}

Printed(p, m) == \E k \in 1..Len(out[p]) : out[p][k] = m

\* C2: done on a valid position holding a pending task makes the task Done
\* and saves, so that without an I/O failure the file holds the task as Done
\* and the next load sees it as Done.
C2_MarkDonePersists ==
    \A p \in Procs :
      (Ran(p, "done") /\ InRange(p) /\ Target(p).status = "Pending") =>
        /\ tasks[p][cmd[p].index + 1].status = "Done"
        /\ SaveCarriedOut(p)
        /\ cmd[p].io = "ok" =>
             /\ file.state = "json"
             /\ Len(LoadTasks(file, "ok").tasks) > cmd[p].index
             /\ LoadTasks(file, "ok").tasks[cmd[p].index + 1].status = "Done"

\* C3: delete on a valid position removes exactly that task, moves the later
\* ones down by one, saves so that without an I/O failure the file holds the
\* shorter list, and reports the removed task's description and id.
C3_DeletePersists ==
    \A p \in Procs :
      (Ran(p, "delete") /\ InRange(p)) =>
        /\ Len(tasks[p]) = Len(pre[p].tasks) - 1
        /\ \A i \in 1..Len(tasks[p]) :
             tasks[p][i] = IF i <= cmd[p].index THEN pre[p].tasks[i]
                           ELSE pre[p].tasks[i + 1]
        /\ SaveCarriedOut(p)
        /\ cmd[p].io = "ok" =>
             (file.state = "json" /\ LoadTasks(file, "ok").tasks = tasks[p])
        /\ Printed(p, Msg("deleted", Target(p).id, Target(p).description))

\* C4: done and delete on a position at or beyond the length of the list
\* report an invalid index, leave the list and next_id in memory as loaded,
\* do not call save_tasks and leave the file as it was.
C4_InvalidIndexChangesNothing ==
    \A p \in Procs :
      (Ended(p) /\ cmd[p].op \in {"done", "delete"} /\ ~InRange(p)) =>
        /\ pc[p] = "ok"
        /\ out[p] = <<Msg("invalid_index", cmd[p].index, "")>>
        /\ tasks[p] = pre[p].tasks
        /\ next_id[p] = pre[p].next_id
        /\ saveRes[p] = "none"
        /\ file = pre[p].file

\* A delete on the position equal to the length of a list that holds tasks.
C4_Witness ==
    \E p \in Procs :
      /\ Ran(p, "delete")
      /\ pre[p].tasks # <<>>
      /\ cmd[p].index = Len(pre[p].tasks)
      /\ file.state = "json"

\* C5: a second done on a position that the last list-changing command, a done,
\* has flipped reports "already done", calls no save and leaves the list in
\* memory and the file as they were.
C5_SecondDoneIsNoOp ==
    \A p \in Procs :
      (Ran(p, "done") /\ InRange(p)
         /\ pre[p].prev = [op |-> "done", index |-> cmd[p].index]) =>
        /\ out[p] = <<Msg("already_done", Target(p).id, "")>>
        /\ saveRes[p] = "none"
        /\ tasks[p] = pre[p].tasks
        /\ file = pre[p].file

\* The --due arguments that match neither format.
BadDueStrings ==
    { <<"2","0","2","4","-","1","3","-","0","1">>,
      <<"n","o","t","-","a","-","d","a","t","e">> }

\* C6: add with a due date that matches neither format fails before anything
\* changes: no task is pushed, next_id is as loaded, save_tasks is not called
\* and the file is as it was.
C6_BadDateChangesNothing ==
    \A p \in Procs :
      (Ran(p, "add") /\ cmd[p].due # <<>> /\ cmd[p].due[1] \in BadDueStrings) =>
        /\ pc[p] = "err"
        /\ out[p] = <<Msg("invalid_date", 0, "")>>
        /\ tasks[p] = pre[p].tasks
        /\ next_id[p] = pre[p].next_id
        /\ saveRes[p] = "none"
        /\ file = pre[p].file

\* An add with an out-of-range month, run on a store that holds a task.
C6_Witness ==
    \E p \in Procs :
      /\ Ran(p, "add")
      /\ cmd[p].due = << <<"2","0","2","4","-","1","3","-","0","1">> >>
      /\ pre[p].tasks # <<>>
      /\ pc[p] = "err"

\* C7: when the save of add, done or delete fails, the failure is printed as
\* a warning, the command still ends normally and the change stays in memory.
C7_SaveFailureIsWarning ==
    \A p \in Procs :
      (Ended(p) /\ cmd[p].op \in {"add", "done", "delete"}
         /\ saveRes[p] # "none" /\ cmd[p].io # "ok") =>
        /\ pc[p] = "ok"
        /\ \E k \in 1..Len(out[p]) : out[p][k].kind = "save_error"
        /\ tasks[p] # pre[p].tasks

\* C8: from an empty store and without I/O failures, add A, add B with a due
\* date, list, done 0, delete 0, list: the first list shows A and B pending
\* with ids 0 and 1, every invocation ends normally, and the last list shows
\* only B, pending, with id 1.
C8_EndToEnd ==
    \A p \in Procs :
      Ended(p) =>
        /\ script = 3 =>
             /\ out[p] # <<>>
             /\ Len(out[p][1].lines) = 2
             /\ out[p][1].lines[1].id = 0
             /\ out[p][1].lines[1].description = "buy milk"
             /\ out[p][1].lines[1].mark = " "
             /\ out[p][1].lines[2].id = 1
             /\ out[p][1].lines[2].description = "call mom"
             /\ out[p][1].lines[2].mark = " "
        /\ script \in 1..6 => pc[p] = "ok"
        /\ script = 6 =>
             /\ out[p] # <<>>
             /\ Len(out[p][1].lines) = 1
             /\ out[p][1].lines[1].id = 1
             /\ out[p][1].lines[1].description = "call mom"
             /\ out[p][1].lines[1].mark = " "

UniqueIds(seq) ==
    \A i, j \in 1..Len(seq) : i # j => seq[i].id # seq[j].id

\* C9: no two tasks of the list in memory, and no two tasks of the file, have
\* the same id.
C9_UniqueIds ==
    /\ \A p \in Procs : UniqueIds(tasks[p])
    /\ file.state = "json" => UniqueIds(file.data)

\* An add has saved a second task after a delete invocation.
C9_Witness ==
    \E p \in Procs :
      /\ Added(p)
      /\ pre[p].prev.op = "delete"
      /\ file.state = "json"
      /\ Len(file.data) >= 2
      /\ file.data = ToJson(tasks[p])

\* C10: after load, next_id is one more than the greatest id loaded, or 0 when
\* nothing was loaded; a missing file is no error and loads as the empty list
\* with next_id 0; and add_task gives the new task that next_id.
C10_NextIdAfterLoad ==
    \A p \in Procs :
      /\ pc[p] = "ready" =>
           /\ \A i \in 1..Len(tasks[p]) : tasks[p][i].id < next_id[p]
           /\ tasks[p] = <<>> => next_id[p] = 0
           /\ tasks[p] # <<>> =>
                \E i \in 1..Len(tasks[p]) : next_id[p] = tasks[p][i].id + 1
           /\ file.state = "missing" => tasks[p] = <<>>
      /\ (pc[p] = "err" /\ cmd[p].op = "none") => file.state # "missing"
      /\ Added(p) => NewId(p) = pre[p].next_id

\* An add on a store that loaded a task: the new id follows the loaded one.
C10_Witness ==
    \E p \in Procs :
      /\ Added(p)
      /\ pre[p].tasks # <<>>
      /\ NewId(p) = pre[p].tasks[Len(pre[p].tasks)].id + 1

\* The task with id i is held as Done in the list ts.
DoneIn(ts, i) == \E k \in 1..Len(ts) : ts[k].id = i /\ ts[k].status = "Done"

\* The task with id i is held in the list ts.
HeldIn(ts, i) == \E k \in 1..Len(ts) : ts[k].id = i

\* The file f records the task with id i, and records it as Done.
FileHolds(f, i) ==
    f.state = "json" /\ \E k \in 1..Len(f.data) : f.data[k].id = i

FileDone(f, i) ==
    /\ f.state = "json"
    /\ \E k \in 1..Len(f.data) : f.data[k].id = i /\ f.data[k].status = "Done"

\* C11: every task is created Pending, and no step makes a Done task Pending
\* again: not a command in the memory of the process running it, not a save in
\* the file, and not a load, which hands a process each task with the status
\* the file gives it.
C11_DoneIsTerminal ==
    [][\A p \in Procs :
         /\ AddStep(p) => tasks'[p][Len(tasks'[p])].status = "Pending"
         /\ pc[p] = "ready" =>
              \A i \in 0..MaxId :
                DoneIn(tasks[p], i) /\ HeldIn(tasks'[p], i) => DoneIn(tasks'[p], i)
         /\ \A i \in 0..MaxId :
              FileDone(file, i) /\ FileHolds(file', i) => FileDone(file', i)
         /\ pc[p] = "idle" /\ pc'[p] = "ready" =>
              \A i \in 0..MaxId : FileDone(file, i) => DoneIn(tasks'[p], i)]_vars

\* A task the file held as Done was loaded as Done, and the add that followed
\* rewrote the file with the task still Done.
C11_Witness ==
    \E p \in Procs :
      /\ Added(p)
      /\ saveRes[p] = "ok"
      /\ \E i \in 0..MaxId :
           /\ FileDone(pre[p].file, i)
           /\ DoneIn(pre[p].tasks, i)
           /\ DoneIn(tasks[p], i)
           /\ FileDone(file, i)

\* C12: what save_tasks writes, load_tasks reads back as the same list: the
\* same length and order, and in each task the same id, description, status
\* and due-date instant and offset.  It holds of every list a process holds,
\* and of the file once a save has gone through.
C12_SaveLoadRoundTrip ==
    \A p \in Procs :
      /\ FromJson(ToJson(tasks[p])) = tasks[p]
      /\ Ended(p) /\ saveRes[p] = "ok" =>
           /\ LoadTasks(file, "ok").ok
           /\ LoadTasks(file, "ok").tasks = tasks[p]
           /\ Len(file.data) = Len(tasks[p])

\* A saved list of two tasks, one Done and one with a due date, reads back
\* as itself.
C12_Witness ==
    \E p \in Procs :
      /\ Ended(p)
      /\ saveRes[p] = "ok"
      /\ Len(tasks[p]) = 2
      /\ tasks[p][1].status = "Done"
      /\ tasks[p][2].due_date # <<>>
      /\ tasks[p][2].due_date[1].offset = IstOffsetMinutes
      /\ LoadTasks(file, "ok").tasks = tasks[p]

\* The due date process p's add was given, as main computes it from --due.
GivenDue(p) ==
    IF cmd[p].due = <<>> THEN <<>>
    ELSE <<FromLocalDatetime(IstOffsetMinutes, ParseDue(cmd[p].due[1]).val)>>

\* C13: add with a valid or absent due date appends exactly one task, with the
\* id next_id had, status Pending and the description and due date given; the
\* tasks already in the list keep their positions and contents; next_id goes
\* up by exactly one; and save_tasks is called.
C13_AddAppendsOne ==
    \A p \in Procs :
      Ran(p, "add") /\ (cmd[p].due = <<>> \/ ParseDue(cmd[p].due[1]).ok) =>
        /\ tasks[p] = Append(pre[p].tasks,
                             [id |-> pre[p].next_id,
                              description |-> cmd[p].description,
                              status |-> "Pending",
                              due_date |-> GivenDue(p)])
        /\ next_id[p] = pre[p].next_id + 1
        /\ SaveCarriedOut(p)

\* An add with a due date onto a list that already held a task.
C13_Witness ==
    \E p \in Procs :
      /\ Added(p)
      /\ pre[p].tasks # <<>>
      /\ cmd[p].due # <<>>
      /\ tasks[p][Len(tasks[p])].due_date # <<>>
      /\ tasks[p][Len(tasks[p])].description = cmd[p].description
      /\ saveRes[p] = "ok"

\* C14: done changes nothing but the status of the task at the position
\* given: that task keeps its id, description and due date, every other task,
\* the length and the order of the list stay as they were, and so does next_id.
C14_MarkDoneFrame ==
    \A p \in Procs :
      Ran(p, "done") =>
        /\ Len(tasks[p]) = Len(pre[p].tasks)
        /\ next_id[p] = pre[p].next_id
        /\ \A k \in 1..Len(tasks[p]) :
             IF k = cmd[p].index + 1
             THEN /\ tasks[p][k].id = pre[p].tasks[k].id
                  /\ tasks[p][k].description = pre[p].tasks[k].description
                  /\ tasks[p][k].due_date = pre[p].tasks[k].due_date
             ELSE tasks[p][k] = pre[p].tasks[k]
        /\ file \in {pre[p].file, JsonFile(ToJson(tasks[p]))}

\* done has flipped the second of two tasks, one that carries a due date.
C14_Witness ==
    \E p \in Procs :
      /\ Ran(p, "done")
      /\ Len(pre[p].tasks) = 2
      /\ cmd[p].index = 1
      /\ Target(p).status = "Pending"
      /\ Target(p).due_date # <<>>
      /\ tasks[p][2].status = "Done"

\* Process p's load failed: main returned the error before the match.
LoadFailed(p) == pc[p] = "err" /\ cmd[p].op = "none"

\* C15: when tasks.json exists but cannot be read, or cannot be parsed, the
\* load fails and main returns its error before the match on the command: no
\* add, list, done or delete runs in that invocation, and the file stays as
\* it was.
C15_LoadFailureAborts ==
    [][\A p \in Procs :
         /\ pc[p] = "idle" /\ pc'[p] # "idle" /\ file.state # "missing"
              /\ (rd'[p] = "read_fails" \/ file.state # "json") =>
              /\ LoadFailed(p)'
              /\ out'[p] = <<Msg("load_error", 0, "")>>
              /\ tasks'[p] = <<>>
              /\ file' = file
         /\ LoadFailed(p) =>
              /\ pc'[p] = "idle"
              /\ cmd'[p].op = "none"
              /\ saveRes'[p] = "none"
              /\ file' = file]_vars

\* An invocation that found the file cut short by a failed write, and ended
\* on the load error.
C15_Witness ==
    \E p \in Procs :
      /\ LoadFailed(p)
      /\ file.state = "partial"
      /\ rd[p] = "ok"
      /\ out[p] = <<Msg("load_error", 0, "")>>

\* C16 as stated: a save leaves the file holding either the complete list it
\* held before or the complete new list, also when the save fails.
C16_SaveIsAtomic ==
    [][\A p \in Procs :
         pc[p] = "ready" /\ SaveCarriedOut(p)' =>
           file' \in {file, JsonFile(ToJson(tasks'[p]))}]_vars

\* Every due date in the list ts carries the offset +05:30.
AllIst(ts) ==
    \A k \in 1..Len(ts) :
      ts[k].due_date # <<>> => ts[k].due_date[1].offset = IstOffsetMinutes

\* The due date of the task process p's add pushed.
AddedDue(p) == tasks[p][Len(tasks[p])].due_date

C18_NoBorrowPanic ==
    \A p \in Procs : saveRes[p] # "borrow_panic" /\ pc[p] # "panic"

\* C19 as stated: an add that went as far as its save prints exactly one
\* thing: the success line when the save succeeded, the save-failure warning
\* when it failed.
C19_AddReportsOneOutcome ==
    \A p \in Procs :
      Added(p) /\ SaveCarriedOut(p) =>
        out[p] = IF saveRes[p] = "ok" THEN <<Msg("added", 0, "")>>
                 ELSE SaveWarning(saveRes[p])

====
